---- MODULE Spec2Model ----
(***************************************************************************)
(* Model of mobile/scripts/create-icon.py: the pine-tree icon generator.   *)
(*                                                                         *)
(* Coordinates are Python floats in the source.  Here a coordinate is an   *)
(* integer number of 1/Scale pixels, and a product with a decimal literal  *)
(* (size * 0.15) is Times(size, 15, 100).  Every literal of the script has *)
(* at most two decimals and at most three of them are multiplied, so with  *)
(* Scale = 1000 every division below is exact for an integer canvas size.  *)
(***************************************************************************)
EXTENDS Integers, Sequences, FiniteSets, TLC

\* ---------------------------------------------------------------- bounds
MaxSize == 3        \* the renderer is also exercised on canvases 1..MaxSize
MaxCalls == 3       \* create_icon calls made by the render driver

\* ------------------------------------------------------------- constants
GREEN == "#166534"
WHITE == "#FFFFFF"

Scale == 10 ^ 3

ToReal(n) == n * Scale
Times(a, num, den) == (a * num) \div den
Half(a) == a \div 2
Floor(a) == a \div Scale
Ceil(a) == (a + Scale - 1) \div Scale

\* the four create_icon calls of the __main__ block, in order
Icons_wrong_size ==
    << [name |-> "icon.png", size |-> 1024],
       [name |-> "adaptive-icon.png", size |-> 512],
       [name |-> "splash-icon.png", size |-> 200],
       [name |-> "favicon.png", size |-> 48] >>
Icons ==
    << [name |-> "icon.png", size |-> 1024],
       [name |-> "adaptive-icon.png", size |-> 432],
       [name |-> "splash-icon.png", size |-> 200],
       [name |-> "favicon.png", size |-> 48] >>

RenderSizes == (1..MaxSize) \cup {1024, 432, 200, 48}
RenderNames == {"icon.png"}

AssetsStates == {"writable", "missing", "readonly"}

VARIABLES
    driver,     \* "script": the __main__ block runs; "render": create_icon is called directly
    pc,         \* position in the program
    pillow,     \* environment: PIL can be imported
    assets,     \* environment: state of the assets directory
    k,          \* index of the create_icon call of the __main__ block
    calls,      \* create_icon invocations so far, <<filename, size>>
    filename,   \* create_icon argument
    size,       \* create_icon argument (canvas side length, pixels)
    img,        \* the canvas: its side length and the colour of its corner pixels
    rect,       \* the rectangle handed to draw.rectangle, <<>> before
    polys,      \* the point lists handed to draw.polygon, in drawing order
    y_offset,   \* draw_pine_tree local
    layer,      \* index of the loop over layers
    dirSeen,    \* assets state found by each img.save call
    files,      \* assets directory content: file name -> saved canvas
    out,        \* lines printed to the console
    exc,        \* exception raised so far, "none" if none
    exitStatus, \* process exit status, meaningful when pc = "exit"
    uncaught,   \* TRUE when the exception left the program (traceback)
    rendered    \* every finished render: canvas size and what was drawn

vars == << driver, pc, pillow, assets, k, calls, filename, size, img, rect,
           polys, y_offset, layer, dirSeen, files, out, exc, exitStatus,
           uncaught, rendered >>

envVars == << pillow, assets >>
drawVars == << img, rect, polys, y_offset, layer, rendered >>
argVars == << filename, size >>
procVars == << exitStatus, uncaught >>

\* ------------------------------------------------------- draw_pine_tree
\* create_icon line 50: draw_pine_tree(draw, size/2, size/2, size * 0.6)
center(sz) == Half(ToReal(sz))
TreeExtent_full(sz) == ToReal(sz)
TreeExtent(sz) == Times(ToReal(sz), 6, 10)

trunk_width(t) == Times(t, 15, 100)
trunk_height_tall(t) == Times(t, 25, 10)
trunk_height(t) == Times(t, 25, 100)
trunk_left(cx, t) == cx - Half(trunk_width(t))
trunk_top(cy, t) == cy + Times(t, 15, 100)

\* the argument of draw.rectangle: <<left, top, right, bottom>>
TrunkRect(cx, cy, t) ==
    << trunk_left(cx, t), trunk_top(cy, t),
       trunk_left(cx, t) + trunk_width(t), trunk_top(cy, t) + trunk_height(t) >>

\* layers: (width, height) in list order
layers(t) ==
    << [width |-> Times(t, 5, 10), height |-> Times(t, 4, 10)],
       [width |-> Times(t, 4, 10), height |-> Times(t, 35, 100)],
       [width |-> Times(t, 3, 10), height |-> Times(t, 3, 10)] >>

InitialYOffset_stale(cy, t) == y_offset
InitialYOffset_fifth(cy, t) == cy - Times(t, 2, 10)
InitialYOffset(cy, t) == cy - Times(t, 3, 10)

YAdvance_half(height) == Times(height, 5, 10)
YAdvance_up(height) == 0 - Times(height, 6, 10)
YAdvance(height) == Times(height, 6, 10)

\* the argument of draw.polygon: top point, bottom left, bottom right
points(cx, y, l) ==
    << <<cx, y>>,
       <<cx - Half(l.width), y + l.height>>,
       <<cx + Half(l.width), y + l.height>> >>

\* Pixels a filled shape may touch: those of its bounding box rounded outward
\* (an upper bound of what the rasteriser paints).
BoxCovers(box, px, py) ==
    /\ Floor(box[1]) <= px /\ px <= Ceil(box[3])
    /\ Floor(box[2]) <= py /\ py <= Ceil(box[4])

PolyBox(p) == << p[2][1], p[1][2], p[3][1], p[3][2] >>

Corners == {"tl", "tr", "bl", "br"}
CornerX(c, sz) == IF c \in {"tl", "bl"} THEN 0 ELSE sz - 1
CornerY(c, sz) == IF c \in {"tl", "tr"} THEN 0 ELSE sz - 1

\* Image.new('RGB', (size, size), GREEN)
NewCanvas(sz) == [size |-> sz, corners |-> [c \in Corners |-> GREEN]]

Paint(canvas, box) ==
    [canvas EXCEPT !.corners =
        [c \in Corners |->
            IF BoxCovers(box, CornerX(c, canvas.size), CornerY(c, canvas.size))
            THEN WHITE ELSE canvas.corners[c]]]

Line(kind, name, sz) == [kind |-> kind, name |-> name, size |-> sz]

\* ------------------------------------------------------------------ Init
InitCommon ==
    /\ pillow \in BOOLEAN
    /\ assets \in AssetsStates
    /\ k = 0
    /\ calls = << >>
    /\ filename = ""
    /\ size = 0
    /\ img = NewCanvas(0)
    /\ rect = << >>
    /\ polys = << >>
    /\ y_offset = 0
    /\ layer = 0
    /\ dirSeen = << >>
    /\ files = << >>
    /\ out = << >>
    /\ exc = "none"
    /\ exitStatus = 0
    /\ uncaught = FALSE
    /\ rendered = {}

Init ==
    /\ driver = "script"
    /\ pc = "import"
    /\ InitCommon

InitRender ==
    /\ driver = "render"
    /\ pc = "idle"
    /\ InitCommon
    /\ pillow = TRUE

\* --------------------------------------------------------------- script
\* line 5: from PIL import Image, ImageDraw (module level, outside the try)
ImportOk ==
    /\ pc = "import"
    /\ pillow
    /\ pc' = "main"
    /\ UNCHANGED << driver, envVars, k, calls, argVars, drawVars, dirSeen,
                    files, out, exc, procVars >>

ImportFail ==
    /\ pc = "import"
    /\ ~pillow
    /\ exc' = "ImportError"
    /\ uncaught' = TRUE
    /\ exitStatus' = 1
    /\ pc' = "exit"
    /\ UNCHANGED << driver, envVars, k, calls, argVars, drawVars, dirSeen,
                    files, out >>

\* line 59
Banner ==
    /\ pc = "main"
    /\ out' = Append(out, Line("banner", "", 0))
    /\ k' = 1
    /\ pc' = "call"
    /\ UNCHANGED << driver, envVars, calls, argVars, drawVars, dirSeen,
                    files, exc, procVars >>

\* lines 62-65: the next create_icon call of the try block
CallCreateIcon ==
    /\ pc = "call"
    /\ k <= Len(Icons)
    /\ filename' = Icons[k].name
    /\ size' = Icons[k].size
    /\ calls' = Append(calls, << Icons[k].name, Icons[k].size >>)
    /\ pc' = "new"
    /\ UNCHANGED << driver, envVars, k, drawVars, dirSeen, files, out, exc,
                    procVars >>

\* line 67, then the end of the script
Summary ==
    /\ pc = "call"
    /\ k > Len(Icons)
    /\ out' = Append(out, Line("summary", "", 0))
    /\ exitStatus' = 0
    /\ pc' = "exit"
    /\ UNCHANGED << driver, envVars, k, calls, argVars, drawVars, dirSeen,
                    files, exc, uncaught >>

\* lines 68-70: except Exception as e, around the whole sequence
Handler_resume ==
    /\ pc = "except"
    /\ out' = out \o << Line("error", filename, size), Line("hint", "", 0) >>
    /\ k' = k + 1
    /\ pc' = "call"
    /\ UNCHANGED << driver, envVars, calls, argVars, drawVars, dirSeen,
                    files, exc, procVars >>

Handler ==
    /\ pc = "except"
    /\ out' = out \o << Line("error", filename, size), Line("hint", "", 0) >>
    /\ exitStatus' = 0
    /\ pc' = "exit"
    /\ UNCHANGED << driver, envVars, k, calls, argVars, drawVars, dirSeen,
                    files, exc, uncaught >>

\* ---------------------------------------------------------- create_icon
\* lines 46-47
NewImage ==
    /\ pc = "new"
    /\ img' = NewCanvas(size)
    /\ rect' = << >>
    /\ polys' = << >>
    /\ pc' = "trunk"
    /\ UNCHANGED << driver, envVars, k, calls, argVars, y_offset, layer,
                    rendered, dirSeen, files, out, exc, procVars >>

\* lines 50, 15-31: the trunk, then the first apex
DrawTrunk ==
    /\ pc = "trunk"
    /\ LET cx == center(size)
           cy == center(size)
           t == TreeExtent(size)
           r == TrunkRect(cx, cy, t)
       IN /\ rect' = r
          /\ img' = Paint(img, r)
          /\ y_offset' = InitialYOffset(cy, t)
    /\ layer' = 1
    /\ pc' = "layer"
    /\ UNCHANGED << driver, envVars, k, calls, argVars, polys, rendered,
                    dirSeen, files, out, exc, procVars >>

\* lines 33-41: one iteration of the loop over layers
DrawLayer ==
    /\ pc = "layer"
    /\ layer \in 1..3
    /\ LET cx == center(size)
           l == layers(TreeExtent(size))[layer]
           p == points(cx, y_offset, l)
           canvas == Paint(img, PolyBox(p))
       IN /\ polys' = Append(polys, p)
          /\ img' = canvas
          /\ y_offset' = y_offset + YAdvance(l.height)
          /\ rendered' =
                IF layer = 3
                THEN rendered \cup {[size |-> size, rect |-> rect,
                                     polys |-> Append(polys, p), img |-> canvas]}
                ELSE rendered
    /\ layer' = layer + 1
    /\ pc' = IF layer = 3 THEN "save" ELSE "layer"
    /\ UNCHANGED << driver, envVars, k, calls, argVars, rect, dirSeen, files,
                    out, exc, procVars >>

\* lines 53-56: img.save succeeds, the success line is printed, create_icon returns
SaveOk ==
    /\ pc = "save"
    /\ assets = "writable"
    /\ dirSeen' = Append(dirSeen, assets)
    /\ files' = [n \in DOMAIN files \cup {filename} |->
                    IF n = filename THEN img ELSE files[n]]
    /\ out' = Append(out, Line("created", filename, size))
    /\ k' = IF driver = "script" THEN k + 1 ELSE k
    /\ pc' = IF driver = "script" THEN "call" ELSE "idle"
    /\ UNCHANGED << driver, envVars, calls, argVars, drawVars, exc, procVars >>

\* line 55: img.save raises (no such directory, permission denied)
SaveRaise ==
    /\ pc = "save"
    /\ assets # "writable"
    /\ dirSeen' = Append(dirSeen, assets)
    /\ exc' = "OSError"
    /\ pc' = IF driver = "script" THEN "except" ELSE "idle"
    /\ UNCHANGED << driver, envVars, k, calls, argVars, drawVars, files, out,
                    procVars >>

\* ---------------------------------------------------------- environment
\* the assets directory is created, removed or has its permissions changed
EnvChange ==
    /\ pc \notin {"exit", "import"}
    /\ driver = "render" => Len(calls) < MaxCalls \/ pc # "idle"
    /\ \E a \in AssetsStates \ {assets} : assets' = a
    /\ UNCHANGED << driver, pc, pillow, k, calls, argVars, drawVars, dirSeen,
                    files, out, exc, procVars >>

\* -------------------------------------------------------- render driver
\* create_icon called directly, with any file name and size
RenderCall ==
    /\ pc = "idle"
    /\ Len(calls) < MaxCalls
    /\ \E n \in RenderNames, s \in RenderSizes :
          /\ filename' = n
          /\ size' = s
          /\ calls' = Append(calls, << n, s >>)
    /\ pc' = "new"
    /\ UNCHANGED << driver, envVars, k, drawVars, dirSeen, files, out, exc,
                    procVars >>

Next ==
    \/ ImportOk
    \/ ImportFail
    \/ Banner
    \/ CallCreateIcon
    \/ NewImage
    \/ DrawTrunk
    \/ DrawLayer
    \/ SaveOk
    \/ SaveRaise
    \/ Summary
    \/ Handler
    \/ EnvChange

NextRender ==
    \/ RenderCall
    \/ NewImage
    \/ DrawTrunk
    \/ DrawLayer
    \/ SaveOk
    \/ SaveRaise
    \/ EnvChange

Spec == Init /\ [][Next]_vars

SpecRender == InitRender /\ [][NextRender]_vars

\* ------------------------------------------------------------ properties
Count(kind) == Cardinality({i \in 1..Len(out) : out[i].kind = kind})
ApexY(p) == p[1][2]
BaseY(p) == p[2][2]
Width(p) == p[3][1] - p[2][1]
AllGreen(canvas) == \A c \in Corners : canvas.corners[c] = GREEN

\* C1: a run of the __main__ block in which the assets directory was writable
\* at every img.save ends with exactly the four files icon.png,
\* adaptive-icon.png, splash-icon.png and favicon.png, whose canvases are
\* 1024, 432, 200 and 48 pixels square, each with its four corner pixels still
\* in the background colour.
C1_FourIcons ==
    ( /\ pc = "exit"
      /\ pillow
      /\ \A i \in 1..Len(dirSeen) : dirSeen[i] = "writable" )
    => /\ DOMAIN files =
            {"icon.png", "adaptive-icon.png", "splash-icon.png", "favicon.png"}
       /\ files["icon.png"].size = 1024
       /\ files["adaptive-icon.png"].size = 432
       /\ files["splash-icon.png"].size = 200
       /\ files["favicon.png"].size = 48
       /\ \A n \in DOMAIN files : AllGreen(files[n])

C1_Witness ==
    /\ pc = "exit"
    /\ Len(dirSeen) = 4
    /\ \A i \in 1..Len(dirSeen) : dirSeen[i] = "writable"
    /\ Cardinality(DOMAIN files) = 4

\* index of the first create_icon call whose img.save raised
FirstFailed ==
    CHOOSE f \in 1..Len(dirSeen) :
        /\ dirSeen[f] # "writable"
        /\ \A j \in 1..(f - 1) : dirSeen[j] = "writable"

\* C2: when create_icon raised for the k-th icon, the run ends with no later
\* icon attempted or written, no success line for the k-th or a later icon, no
\* summary line, the error message and the hint printed exactly once each,
\* exit status 0 and no exception leaving the program.
C2_StopAtFirstFailure ==
    (pc = "exit" /\ exc = "OSError") =>
        LET f == FirstFailed
        IN /\ Len(calls) = f
           /\ \A j \in 1..f : calls[j] = << Icons[j].name, Icons[j].size >>
           /\ DOMAIN files = {Icons[j].name : j \in 1..(f - 1)}
           /\ \A i \in 1..Len(out) :
                 out[i].kind = "created" =>
                    \E j \in 1..(f - 1) : out[i].name = Icons[j].name
           /\ Count("summary") = 0
           /\ Count("error") = 1
           /\ Count("hint") = 1
           /\ exitStatus = 0
           /\ ~uncaught

C2_Witness ==
    /\ pc = "exit"
    /\ exc = "OSError"
    /\ Len(dirSeen) = 3
    /\ Count("created") = 2
    /\ Count("error") = 1

\* C3: when the Pillow import fails, the run prints the error message and ends
\* without the error leaving the program.
C3_ImportErrorCaught ==
    (pc = "exit" /\ ~pillow) =>
        /\ Count("error") = 1
        /\ ~uncaught
        /\ exitStatus = 0

\* C4 as stated: with cx = cy = size/2 the trunk rectangle is
\* (cx - 0.075*size, cy + 0.15*size) .. (cx + 0.075*size, cy + 0.40*size),
\* size being the canvas side length.
C4_TrunkOfCanvasSize ==
    pc \in {"layer", "save"} =>
        LET s == ToReal(size)
            cx == s \div 2
            cy == s \div 2
        IN rect = << cx - (s * 75) \div 1000, cy + (s * 15) \div 100,
                     cx + (s * 75) \div 1000, cy + (s * 40) \div 100 >>

\* C4 amended: the proportions apply to the tree extent 0.6*size, so the trunk
\* rectangle is (cx - 0.045*size, cy + 0.09*size) .. (cx + 0.045*size,
\* cy + 0.24*size): its width is 0.09*size and its height 0.15*size.
C4_TrunkOfTreeExtent ==
    pc \in {"layer", "save"} =>
        LET s == ToReal(size)
            cx == s \div 2
            cy == s \div 2
        IN /\ rect = << cx - (s * 45) \div 1000, cy + (s * 9) \div 100,
                        cx + (s * 45) \div 1000, cy + (s * 24) \div 100 >>
           /\ rect[3] - rect[1] = (s * 9) \div 100
           /\ rect[4] - rect[2] = (s * 15) \div 100

C4_Witness == pc = "layer" /\ rect # << >> /\ size = 2

\* C5 as stated: the apex of the first layer is at y = cy - 0.3*size, size
\* being the canvas side length.
C5_ApexOfCanvasSize ==
    (pc \in {"layer", "save"} /\ Len(polys) >= 1) => ApexY(polys[1]) = ToReal(size) \div 2 - (ToReal(size) * 3) \div 10

\* C5 amended: the apex of the first layer is at y = cy - 0.18*size, that is
\* 0.3 times the tree extent 0.6*size above the canvas centre.
C5_ApexOfTreeExtent ==
    (pc \in {"layer", "save"} /\ Len(polys) >= 1) =>
        /\ ApexY(polys[1]) = ToReal(size) \div 2 - (ToReal(size) * 18) \div 100
        /\ polys[1][1][1] = ToReal(size) \div 2

C5_Witness == pc = "layer" /\ Len(polys) = 1 /\ size = 200

\* C6: for each of the sizes 1024, 432, 200 and 48 the trunk rectangle lies
\* strictly inside the canvas: 0 < left < right < size, 0 < top < bottom < size.
C6_TrunkInsideCanvas ==
    \A r \in rendered :
        r.size \in {1024, 432, 200, 48} =>
            /\ 0 < r.rect[1] /\ r.rect[1] < r.rect[3] /\ r.rect[3] < ToReal(r.size)
            /\ 0 < r.rect[2] /\ r.rect[2] < r.rect[4] /\ r.rect[4] < ToReal(r.size)

C6_Witness == {r.size : r \in rendered} = {1024, 432, 200, 48}

\* C7 as stated: for each of the first two layers, the extent from the next
\* layer's apex down to this layer's base is 0.6 times this layer's height.
C7_OverlapSixTenths ==
    \A r \in rendered : \A i \in 1..2 :
        BaseY(r.polys[i]) - ApexY(r.polys[i + 1])
            = ((BaseY(r.polys[i]) - ApexY(r.polys[i])) * 6) \div 10

\* C7 amended: the next layer's apex lies 0.6 times this layer's height below
\* this layer's apex, so the extent shared with the next layer is 0.4 times
\* this layer's height.
C7_OverlapFourTenths ==
    \A r \in rendered : \A i \in 1..2 :
        LET h == BaseY(r.polys[i]) - ApexY(r.polys[i])
        IN /\ ApexY(r.polys[i + 1]) - ApexY(r.polys[i]) = (h * 6) \div 10
           /\ BaseY(r.polys[i]) - ApexY(r.polys[i + 1]) = (h * 4) \div 10

C7_Witness == \E r \in rendered : r.size = 432

\* C8: every finished render of a given size has the same trunk rectangle, the
\* same three triangles and the same canvas, whatever was rendered before.
C8_Deterministic ==
    \A a, b \in rendered : a.size = b.size => a = b

C8_Witness ==
    /\ pc = "idle"
    /\ Len(calls) = 3
    /\ calls[1][2] = calls[3][2]
    /\ calls[1][2] # calls[2][2]

\* C9: the apex of layer i is strictly lower on the canvas (greater y) than the
\* apex of layer i-1, for i = 2 and i = 3 in drawing order.
C9_ApexIncreasing ==
    \A r \in rendered : \A i \in 2..3 :
        ApexY(r.polys[i]) > ApexY(r.polys[i - 1])

C9_Witness == \E r \in rendered : r.size = 1

\* C10: among the three triangles the widest has the greatest apex and base y
\* (it is the bottom layer) and the narrowest the smallest (the top layer).
C10_WidestLowest ==
    \A r \in rendered : \A i, j \in 1..3 :
        Width(r.polys[i]) > Width(r.polys[j]) =>
            /\ ApexY(r.polys[i]) > ApexY(r.polys[j])
            /\ BaseY(r.polys[i]) > BaseY(r.polys[j])

====
